---- MODULE Spec2Model ----
(***************************************************************************)
(* Model of the gossip broadcast node (handler.rs, unique_id.rs,           *)
(* event_loop.rs).  Strings are sequences of one-character strings, a      *)
(* HashSet is a set, a HashMap is a function on its key set.               *)
(***************************************************************************)
EXTENDS Integers, Sequences, FiniteSets, TLC

\* ------------------------------------------------------------------ bounds
NumNodes == 3
NumPeers == 1
MaxValue == 2
MaxClientMsgId == 1
MaxGossipMsgId == 2
MaxNeighbors == 2
MaxGenerate == 1
MaxClock == 1
MaxClusterValue == 1

\* ------------------------------------------------------- program constants
NUM_RANDOM_NEIGHBORS_TO_INFORM == 10
CHANNEL_SIZE == 10
SEQUENCE_BITS == 12
MACHINE_ID_BITS == 10
TIMESTAMP_BITS == 42
U16_MAX == 65535

\* -------------------------------------------------------------- strings
DigitChars == <<"0", "1", "2", "3", "4", "5", "6", "7", "8", "9">>

IsDigit(c) == \E d \in 1..10 : DigitChars[d] = c

DigitVal(c) == (CHOOSE d \in 1..10 : DigitChars[d] = c) - 1

\* u16's Display: decimal digits, no sign, no leading zero
RECURSIVE FormatU16(_)
FormatU16(k) ==
    IF k < 10 THEN <<DigitChars[k + 1]>>
    ELSE FormatU16(k \div 10) \o <<DigitChars[(k % 10) + 1]>>

\* the value of a digit string, saturating just above u16::MAX so that the
\* overflow check of the parser is decided without leaving the integers
RECURSIVE DigitsValue(_, _)
DigitsValue(s, acc) ==
    IF s = <<>> THEN acc
    ELSE LET next == acc * 10 + DigitVal(Head(s))
         IN DigitsValue(Tail(s), IF next > U16_MAX THEN U16_MAX + 1 ELSE next)

ParseError == -1

\* str::parse::<u16>: an optional leading "+", then one or more decimal
\* digits, the value at most u16::MAX; anything else is an error
ParseU16(s) ==
    LET digits == IF s # <<>> /\ Head(s) = "+" THEN Tail(s) ELSE s
    IN  IF digits = <<>> THEN ParseError
        ELSE IF \E i \in 1..Len(digits) : ~IsDigit(digits[i]) THEN ParseError
        ELSE IF DigitsValue(digits, 0) > U16_MAX THEN ParseError
        ELSE DigitsValue(digits, 0)

parse_node_id(node_id) ==
    IF Len(node_id) < 2 THEN ParseError
    ELSE ParseU16(Tail(node_id))

\* format!("n{machine_id}")
FormatNodeId(machine_id) == <<"n">> \o FormatU16(machine_id)

\* ------------------------------------------------------------- unique ids
\* An i64 is its two's complement word as four 16-bit limbs, the most
\* significant first: the ids and the millisecond timestamps do not fit the
\* integers of TLC.
LIMB == 65536

\* the i64 of a number below 2^31, and the i64 hi * 2^31 + lo for hi < 2^31
I64(value) == <<0, 0, value \div LIMB, value % LIMB>>
I64Of(hi, lo) ==
    <<hi \div 131072, (hi \div 2) % LIMB,
      ((hi % 2) * 32768) + (lo \div LIMB), lo % LIMB>>

\* `as u16`: the low 16 bits
AsU16(word) == word[4]

\* & and | of two limbs, bit by bit from the lowest
RECURSIVE And16(_, _)
And16(x, y) ==
    IF x = 0 \/ y = 0 THEN 0
    ELSE 2 * And16(x \div 2, y \div 2) + (x % 2) * (y % 2)

RECURSIVE Or16(_, _)
Or16(x, y) ==
    IF x = 0 THEN y
    ELSE IF y = 0 THEN x
    ELSE 2 * Or16(x \div 2, y \div 2) + (IF (x % 2) + (y % 2) > 0 THEN 1 ELSE 0)

BitAnd(a, b) ==
    <<And16(a[1], b[1]), And16(a[2], b[2]), And16(a[3], b[3]), And16(a[4], b[4])>>
BitOr(a, b) ==
    <<Or16(a[1], b[1]), Or16(a[2], b[2]), Or16(a[3], b[3]), Or16(a[4], b[4])>>
BitNot(a) == <<LIMB - 1 - a[1], LIMB - 1 - a[2], LIMB - 1 - a[3], LIMB - 1 - a[4]>>

\* the limb at position i of a word continued by fill above it and by zero
\* below it
LimbAt(word, i, fill) == IF i < 1 THEN fill ELSE IF i > 4 THEN 0 ELSE word[i]

\* word << k and word >> k (arithmetic) for 0 <= k < 64
Shl(word, k) ==
    LET q == k \div 16
        r == k % 16
        limb(i) == ((LimbAt(word, i + q, 0) * 2^r) % LIMB)
                     + (LimbAt(word, i + q + 1, 0) \div 2^(16 - r))
    IN  <<limb(1), limb(2), limb(3), limb(4)>>

Shr(word, k) ==
    LET q == k \div 16
        r == k % 16
        fill == IF word[1] >= LIMB \div 2 THEN LIMB - 1 ELSE 0
        limb(i) == (LimbAt(word, i - q, fill) \div 2^r)
                     + ((LimbAt(word, i - q - 1, fill) % 2^r) * 2^(16 - r))
    IN  <<limb(1), limb(2), limb(3), limb(4)>>

\* wrapping addition of two i64 and a carry, limb by limb from the lowest
AddCarry(a, b, carry) ==
    LET sum4 == a[4] + b[4] + carry
        sum3 == a[3] + b[3] + (sum4 \div LIMB)
        sum2 == a[2] + b[2] + (sum3 \div LIMB)
        sum1 == a[1] + b[1] + (sum2 \div LIMB)
    IN  <<sum1 % LIMB, sum2 % LIMB, sum3 % LIMB, sum4 % LIMB>>

Add(a, b) == AddCarry(a, b, 0)
Sub(a, b) == AddCarry(a, BitNot(b), 1)

\* 2i64.pow(num_bits) for num_bits < 63
Pow2(num_bits) ==
    LET limb(i) == IF i = 4 - (num_bits \div 16) THEN 2^(num_bits % 16) ELSE 0
    IN  <<limb(1), limb(2), limb(3), limb(4)>>

\* 1288834974657 = 600 * 2^31 + 344785857
EPOCH_START_MS == I64Of(600, 344785857)

\* the mutant keeps every bit
and_with_unmasked(value, num_bits) == value

\* value & (2i64.pow(num_bits) - 1)
and_with(value, num_bits) == BitAnd(value, Sub(Pow2(num_bits), I64(1)))

\* SnowflakeId::new; timestamp is timestamp.timestamp_millis()
SnowflakeId_new(machine_id, timestamp, sequence) ==
    LET timestamp_ms == Shl(and_with(Sub(timestamp, EPOCH_START_MS), TIMESTAMP_BITS), 22)
        machine_id_bits == Shl(and_with(I64(machine_id), MACHINE_ID_BITS), 12)
        sequence_bits == and_with(I64(sequence), SEQUENCE_BITS)
    IN  BitOr(BitOr(timestamp_ms, machine_id_bits), sequence_bits)

SnowflakeId_machine_id(self) == AsU16(and_with(Shr(self, 12), MACHINE_ID_BITS))

\* the timestamp_millis() of the DateTime returned
SnowflakeId_timestamp(self) ==
    Add(EPOCH_START_MS, and_with(Shr(self, 22), TIMESTAMP_BITS))

SnowflakeId_sequence(self) == AsU16(and_with(self, SEQUENCE_BITS))

SnowflakeIdGenerator_new(machine_id, sequence) ==
    [machine_id |-> machine_id, sequence |-> sequence]

\* u16 + u16: the sum modulo 2^16, and whether it overflowed; an overflow is
\* a panic in a build with overflow checks and wraps in a build without
AddU16(a, b) ==
    [value |-> (a + b) % (U16_MAX + 1), overflow |-> a + b > U16_MAX]

\* SnowflakeIdGenerator::generate: the id, the generator after the call, and
\* whether self.sequence += 1 overflowed; timestamp is Utc::now()
SnowflakeIdGenerator_generate(self, timestamp) ==
    LET sequence == AddU16(self.sequence, 1)
    IN  [id |-> SnowflakeId_new(self.machine_id, timestamp, self.sequence),
         self |-> [self EXCEPT !.sequence = sequence.value],
         overflow |-> sequence.overflow]

\* Utc::now() when the clock reads timestamp_ms milliseconds after the
\* epoch of the ids
UtcNow(timestamp_ms) == Add(EPOCH_START_MS, I64(timestamp_ms))

\* --------------------------------------------------------------- messages
Message(src, dest, body) == [src |-> src, dest |-> dest, body |-> body]

MessageBody_Init(msg_id, node_id) ==
    [type |-> "init", msg_id |-> msg_id, node_id |-> node_id]
MessageBody_Echo(msg_id, echo) == [type |-> "echo", msg_id |-> msg_id, echo |-> echo]
MessageBody_Generate(msg_id) == [type |-> "generate", msg_id |-> msg_id]
MessageBody_Broadcast(msg_id, value) ==
    [type |-> "broadcast", msg_id |-> msg_id, message |-> value]
MessageBody_Read(msg_id) == [type |-> "read", msg_id |-> msg_id]
MessageBody_Topology(msg_id, topology) ==
    [type |-> "topology", msg_id |-> msg_id, topology |-> topology]
MessageBody_InformNewBroadcast(msg_id, messages) ==
    [type |-> "inform_new_broadcast", msg_id |-> msg_id, messages |-> messages]

MessageBody_InitOk(in_reply_to) == [type |-> "init_ok", in_reply_to |-> in_reply_to]
MessageBody_EchoOk(msg_id, in_reply_to, echo) ==
    [type |-> "echo_ok", msg_id |-> msg_id, in_reply_to |-> in_reply_to,
     echo |-> echo]
MessageBody_GenerateOk(id, in_reply_to) ==
    [type |-> "generate_ok", id |-> id, in_reply_to |-> in_reply_to]
MessageBody_BroadcastOk(in_reply_to) ==
    [type |-> "broadcast_ok", in_reply_to |-> in_reply_to]
MessageBody_ReadOk(in_reply_to, messages) ==
    [type |-> "read_ok", in_reply_to |-> in_reply_to, messages |-> messages]
MessageBody_TopologyOk(in_reply_to) ==
    [type |-> "topology_ok", in_reply_to |-> in_reply_to]
MessageBody_InformNewBroadcastOk(in_reply_to) ==
    [type |-> "inform_new_broadcast_ok", in_reply_to |-> in_reply_to]

RequestTypes ==
    {"init", "echo", "generate", "broadcast", "read", "topology",
     "inform_new_broadcast"}

\* the result of Handler::handle_message
Ok == "Ok"
UnprocessableMessage == "UnprocessableMessage"
InvalidMachineId == "InvalidMachineId"
ReceivedMessageInInvalidState == "ReceivedMessageInInvalidState"

\* what a handler call leaves behind: the handler, the lines written to
\* stdout by send_message in order, and the returned result
Outcome(self, out, res) == [self |-> self, out |-> out, res |-> res]

\* --------------------------------------------------------- UninitHandler
None == -1

UninitHandler_new == [machine_id |-> None]

\* the mutant accepts a second init
UninitHandler_handle_message_again(self, message) ==
    IF message.body.type # "init"
    THEN Outcome(self, <<>>, UnprocessableMessage)
    ELSE LET machine_id == parse_node_id(message.body.node_id)
         IN  IF machine_id = ParseError
             THEN Outcome(self, <<>>, InvalidMachineId)
             ELSE Outcome([self EXCEPT !.machine_id = machine_id],
                          <<Message(message.dest, message.src,
                                    MessageBody_InitOk(message.body.msg_id))>>,
                          Ok)

UninitHandler_handle_message(self, message) ==
    IF message.body.type # "init"
    THEN Outcome(self, <<>>, UnprocessableMessage)
    ELSE LET machine_id == parse_node_id(message.body.node_id)
         IN  IF machine_id = ParseError
             THEN Outcome(self, <<>>, InvalidMachineId)
             ELSE IF self.machine_id # None
             THEN Outcome(self, <<>>, ReceivedMessageInInvalidState)
             ELSE Outcome([self EXCEPT !.machine_id = machine_id],
                          <<Message(message.dest, message.src,
                                    MessageBody_InitOk(message.body.msg_id))>>,
                          Ok)

\* ---------------------------------------------------- InitializedHandler
\* HashMap::insert and HashMap::remove
MapInsert(map, key, value) ==
    [k \in DOMAIN map \cup {key} |-> IF k = key THEN value ELSE map[k]]

MapRemove(map, key) == [k \in DOMAIN map \ {key} |-> map[k]]

\* HashMap::entry(key).or_default() on a map of sets
EntryOrDefault(map, key) ==
    IF key \in DOMAIN map THEN map ELSE MapInsert(map, key, {})

\* the mutant records a pending entry without its values
PendingSentMessages_InformBroadcast_empty(messages, dst) ==
    [messages |-> {}, dst |-> dst]

PendingSentMessages_InformBroadcast(messages, dst) ==
    [messages |-> messages, dst |-> dst]

InitializedHandler_new(machine_id) ==
    [unique_id_generator |-> SnowflakeIdGenerator_new(machine_id, 0),
     neighbors |-> <<>>,
     node_id |-> FormatNodeId(machine_id),
     messages |-> {},
     known_messages_to_neighbors |-> <<>>,
     pending_messages_sent |-> <<>>,
     current_msg_id |-> 0]

\* the mutant appends the delivered list to the old neighbours
handle_topology_merging(self, topology) ==
    IF self.node_id \notin DOMAIN topology THEN self
    ELSE LET neighbors == topology[self.node_id]
         IN  [self EXCEPT
                !.neighbors = @ \o neighbors,
                !.known_messages_to_neighbors =
                    [k \in DOMAIN @ \cup {neighbors[i] : i \in 1..Len(neighbors)}
                        |-> IF \E i \in 1..Len(neighbors) : neighbors[i] = k
                            THEN {} ELSE @[k]]]

handle_topology(self, topology) ==
    IF self.node_id \notin DOMAIN topology THEN self
    ELSE LET neighbors == topology[self.node_id]
         IN  [self EXCEPT
                !.neighbors = neighbors,
                !.known_messages_to_neighbors =
                    [k \in DOMAIN @ \cup {neighbors[i] : i \in 1..Len(neighbors)}
                        |-> IF \E i \in 1..Len(neighbors) : neighbors[i] = k
                            THEN {} ELSE @[k]]]

\* the results IteratorRandom::choose_multiple can give: min(amount, len)
\* elements at distinct positions, in an order the library leaves open
ChooseMultiple(seq, amount) ==
    LET k == IF amount < Len(seq) THEN amount ELSE Len(seq)
        picks == {p \in [1..k -> 1..Len(seq)] :
                    \A i, j \in 1..k : i # j => p[i] # p[j]}
    IN  {[i \in 1..k |-> seq[p[i]]] : p \in picks}

\* the mutant sends the whole set, whatever the neighbour knows
GossipDiff_everything(messages, known_by_other) == messages

\* the mutant sends nothing the neighbour lacks
GossipDiff_nothing(messages, known_by_other) == messages \cap known_by_other

\* self.messages.difference(known_by_other)
GossipDiff(messages, known_by_other) == messages \ known_by_other

\* the mutant sends every packet of a node under msg_id 0
RECURSIVE send_inform_broadcast_to_neighbors_reusing(_, _, _)
send_inform_broadcast_to_neighbors_reusing(self, neighbors_to_inform, out) ==
    IF neighbors_to_inform = <<>> THEN Outcome(self, out, Ok)
    ELSE
      LET neighbor == Head(neighbors_to_inform)
          known == EntryOrDefault(self.known_messages_to_neighbors, neighbor)
          messages == self.messages \ known[neighbor]
          message == Message(self.node_id, neighbor,
                             MessageBody_InformNewBroadcast(self.current_msg_id, messages))
          pending ==
            IF self.current_msg_id \in DOMAIN self.pending_messages_sent
            THEN self.pending_messages_sent
            ELSE MapInsert(self.pending_messages_sent, self.current_msg_id,
                           [messages |-> messages, dst |-> neighbor])
      IN  IF messages = {}
          THEN send_inform_broadcast_to_neighbors_reusing(
                 [self EXCEPT !.known_messages_to_neighbors = known],
                 Tail(neighbors_to_inform), out)
          ELSE send_inform_broadcast_to_neighbors_reusing(
                 [self EXCEPT !.known_messages_to_neighbors = known,
                              !.pending_messages_sent = pending],
                 Tail(neighbors_to_inform), Append(out, message))

\* the body of the for loop of send_inform_broadcast_to_neighbors, run over
\* the chosen neighbours in order; out collects the packets sent
RECURSIVE send_inform_broadcast_to_neighbors(_, _, _)
send_inform_broadcast_to_neighbors(self, neighbors_to_inform, out) ==
    IF neighbors_to_inform = <<>> THEN Outcome(self, out, Ok)
    ELSE
      LET neighbor == Head(neighbors_to_inform)
          known == EntryOrDefault(self.known_messages_to_neighbors, neighbor)
          messages == GossipDiff(self.messages, known[neighbor])
          message == Message(self.node_id, neighbor,
                             MessageBody_InformNewBroadcast(self.current_msg_id, messages))
          pending ==
            IF self.current_msg_id \in DOMAIN self.pending_messages_sent
            THEN self.pending_messages_sent
            ELSE MapInsert(self.pending_messages_sent, self.current_msg_id,
                           PendingSentMessages_InformBroadcast(messages, neighbor))
      IN  IF messages = {}
          THEN send_inform_broadcast_to_neighbors(
                 [self EXCEPT !.known_messages_to_neighbors = known],
                 Tail(neighbors_to_inform), out)
          ELSE send_inform_broadcast_to_neighbors(
                 [self EXCEPT !.known_messages_to_neighbors = known,
                              !.pending_messages_sent = pending,
                              !.current_msg_id = @ + 1],
                 Tail(neighbors_to_inform), Append(out, message))

handle_gossip_timer(self, neighbors_to_inform) ==
    send_inform_broadcast_to_neighbors(self, neighbors_to_inform, <<>>)

\* the mutant records the sender's knowledge but forgets the values
handle_inform_new_broadcast_forgetful(self, message_src, msg_id, messages) ==
    Outcome(
      [self EXCEPT
         !.known_messages_to_neighbors =
             IF message_src \in DOMAIN @
             THEN [@ EXCEPT ![message_src] = @ \cup messages]
             ELSE MapInsert(@, message_src, messages)],
      <<Message(self.node_id, message_src, MessageBody_InformNewBroadcastOk(msg_id))>>,
      Ok)

\* the mutant overwrites the sender's entry with the delivered values
handle_inform_new_broadcast_overwriting(self, message_src, msg_id, messages) ==
    Outcome(
      [self EXCEPT
         !.messages = @ \cup messages,
         !.known_messages_to_neighbors = MapInsert(@, message_src, messages)],
      <<Message(self.node_id, message_src, MessageBody_InformNewBroadcastOk(msg_id))>>,
      Ok)

\* the mutant replaces the seen set by the delivered values
handle_inform_new_broadcast_replacing(self, message_src, msg_id, messages) ==
    Outcome(
      [self EXCEPT
         !.messages = messages,
         !.known_messages_to_neighbors =
             IF message_src \in DOMAIN @
             THEN [@ EXCEPT ![message_src] = @ \cup messages]
             ELSE MapInsert(@, message_src, messages)],
      <<Message(self.node_id, message_src, MessageBody_InformNewBroadcastOk(msg_id))>>,
      Ok)

handle_inform_new_broadcast(self, message_src, msg_id, messages) ==
    Outcome(
      [self EXCEPT
         !.messages = @ \cup messages,
         !.known_messages_to_neighbors =
             IF message_src \in DOMAIN @
             THEN [@ EXCEPT ![message_src] = @ \cup messages]
             ELSE MapInsert(@, message_src, messages)],
      <<Message(self.node_id, message_src, MessageBody_InformNewBroadcastOk(msg_id))>>,
      Ok)

\* the mutant credits nothing on acknowledgment
handle_pending_message_ignoring(self, message) == self

\* the mutant credits the neighbour with every value seen so far
handle_pending_message_crediting_all(self, message) ==
    [self EXCEPT
       !.known_messages_to_neighbors =
           MapInsert(@, message.dst,
                     (IF message.dst \in DOMAIN @ THEN @[message.dst] ELSE {})
                       \cup self.messages)]

handle_pending_message(self, message) ==
    [self EXCEPT
       !.known_messages_to_neighbors =
           IF message.dst \in DOMAIN @
           THEN [@ EXCEPT ![message.dst] = @ \cup message.messages]
           ELSE MapInsert(@, message.dst, {})]

\* the mutant removes the acknowledged entry and credits nothing
handle_response_dropping(self, msg_id) ==
    [self EXCEPT !.pending_messages_sent = MapRemove(@, msg_id)]

\* the mutant empties the pending table on a matching acknowledgment
handle_response_clearing(self, msg_id) ==
    IF msg_id \notin DOMAIN self.pending_messages_sent THEN self
    ELSE LET message == self.pending_messages_sent[msg_id]
         IN  [self EXCEPT
                !.pending_messages_sent = <<>>,
                !.known_messages_to_neighbors =
                    MapInsert(@, message.dst,
                              (IF message.dst \in DOMAIN @ THEN @[message.dst] ELSE {})
                                \cup message.messages)]

handle_response(self, msg_id) ==
    IF msg_id \notin DOMAIN self.pending_messages_sent THEN self
    ELSE handle_pending_message(
           [self EXCEPT !.pending_messages_sent = MapRemove(@, msg_id)],
           self.pending_messages_sent[msg_id])

\* the mutant forgets to swap the two ends
Response_unswapped(message, body) == Message(message.src, message.dest, body)

\* a response to a client request: src and dest exchanged
Response(message, body) == Message(message.dest, message.src, body)

InitializedHandler_handle_message(self, message, timestamp_ms) ==
    LET body == message.body IN
    CASE body.type = "init" -> Outcome(self, <<>>, UnprocessableMessage)
      [] body.type = "echo" ->
           Outcome(self,
                   <<Response(message, MessageBody_EchoOk(body.msg_id, body.msg_id, body.echo))>>,
                   Ok)
      [] body.type = "generate" ->
           LET generated ==
                 SnowflakeIdGenerator_generate(self.unique_id_generator,
                                               UtcNow(timestamp_ms))
           IN  Outcome([self EXCEPT !.unique_id_generator = generated.self],
                       <<Response(message, MessageBody_GenerateOk(generated.id, body.msg_id))>>,
                       Ok)
      [] body.type = "broadcast" ->
           Outcome([self EXCEPT !.messages = @ \cup {body.message}],
                   <<Response(message, MessageBody_BroadcastOk(body.msg_id))>>,
                   Ok)
      [] body.type = "read" ->
           Outcome(self,
                   <<Response(message, MessageBody_ReadOk(body.msg_id, self.messages))>>,
                   Ok)
      [] body.type = "topology" ->
           Outcome(handle_topology(self, body.topology),
                   <<Response(message, MessageBody_TopologyOk(body.msg_id))>>,
                   Ok)
      [] body.type = "inform_new_broadcast" ->
           handle_inform_new_broadcast(self, message.src, body.msg_id, body.messages)
      [] body.type = "inform_new_broadcast_ok" ->
           Outcome(handle_response(self, body.in_reply_to), <<>>, Ok)
      [] OTHER -> Outcome(self, <<>>, Ok)

\* ------------------------------------------------------------------ state
VARIABLES
    stage,                \* per node: which loop of main owns stdin
    uninit_handler,       \* per node: the UninitHandler
    initialized_handler,  \* per node: the InitializedHandler (once promoted)
    event,                \* the event the dispatcher processed last
    result,               \* what handle_message returned for it
    written,              \* the lines it wrote to stdout, in order
    delivered,            \* per node: the values its stdin has carried so far
    net,                  \* node-to-node lines the harness has taken from
                          \* the nodes' stdout
    process,              \* "running", or "panicked" once the main thread is gone
    channel,              \* the events buffered in the sync_channel, oldest first
    stdin_thread,         \* the thread reading stdin: where it is, what it holds
    timer_thread,         \* the timer thread: where it is
    handler_thread,       \* run_handler_forever: where it is, what it holds
    overflow_checks,      \* whether the build panics on integer overflow
    generator,            \* a SnowflakeIdGenerator
    started,              \* that generator as SnowflakeIdGenerator::new made it
    calls,                \* the generate() calls made on it
    snowflake_id,         \* the SnowflakeId built last
    id_args               \* the arguments SnowflakeId::new built it from

node_vars == <<stage, uninit_handler, initialized_handler, event, result,
               written, delivered, net>>
loop_vars == <<channel, stdin_thread, timer_thread, handler_thread>>
id_vars == <<overflow_checks, generator, started, calls, snowflake_id, id_args>>

vars == <<stage, uninit_handler, initialized_handler, event, result, written,
          delivered, net, process, channel, stdin_thread, timer_thread,
          handler_thread, overflow_checks, generator, started, calls,
          snowflake_id, id_args>>

Nodes == 1..NumNodes
NodeIds == {FormatNodeId(k) : k \in Nodes}
Clients == {<<"c", "1">>}
Values == 1..MaxValue
ClientMsgIds == 0..MaxClientMsgId
GossipMsgIds == 0..MaxGossipMsgId
Clock == 0..MaxClock

\* neighbour lists of at most MaxNeighbors ids out of ids, repeats included
NeighborLists(ids) ==
    UNION {[1..len -> ids] : len \in 0..MaxNeighbors}

NoMessage == Message(<<>>, <<>>, [type |-> "none"])
MessageEvent(n, message) == [node |-> n, type |-> "Message", message |-> message]
TimerEvent(n) == [node |-> n, type |-> "Timer", message |-> NoMessage]
PromoteEvent(n) == [node |-> n, type |-> "Promote", message |-> NoMessage]
NoEvent == [node |-> 0, type |-> "None", message |-> NoMessage]
NoResult == "None"

\* the broadcast values a line brings: a client broadcast's value, a gossip
\* packet's set
ValuesCarried(message) ==
    IF message.body.type = "broadcast" THEN {message.body.message}
    ELSE IF message.body.type = "inform_new_broadcast" THEN message.body.messages
    ELSE {}

\* ---------------------------------------------------------------- actions
\* run_uninitialized_loop: one line handled by the UninitHandler
UninitStep(n, message) ==
    /\ stage[n] = "uninit"
    /\ LET outcome == UninitHandler_handle_message(uninit_handler[n], message)
       IN  /\ uninit_handler' = [uninit_handler EXCEPT ![n] = outcome.self]
           /\ written' = outcome.out
           /\ result' = outcome.res
    /\ event' = MessageEvent(n, message)
    /\ UNCHANGED <<stage, initialized_handler, delivered>>

\* the caller's promotion: get_initialized_handler returned Some
Promote(n) ==
    /\ stage[n] = "uninit"
    /\ uninit_handler[n].machine_id # None
    /\ stage' = [stage EXCEPT ![n] = "initialized"]
    /\ initialized_handler' =
         [initialized_handler EXCEPT
            ![n] = InitializedHandler_new(uninit_handler[n].machine_id)]
    /\ event' = PromoteEvent(n)
    /\ result' = NoResult
    /\ written' = <<>>
    /\ UNCHANGED <<uninit_handler, delivered>>

\* run_handler_forever, Event::Message: one line handled by the
\* InitializedHandler
InitializedStep(n, message) ==
    /\ stage[n] = "initialized"
    /\ message.body.type = "generate" =>
         initialized_handler[n].unique_id_generator.sequence < MaxGenerate
    /\ \E timestamp_ms \in Clock :
         LET outcome == InitializedHandler_handle_message(
                          initialized_handler[n], message, timestamp_ms)
         IN  /\ initialized_handler' =
                   [initialized_handler EXCEPT ![n] = outcome.self]
             /\ written' = outcome.out
             /\ result' = outcome.res
    /\ event' = MessageEvent(n, message)
    /\ delivered' = [delivered EXCEPT ![n] = @ \cup ValuesCarried(message)]
    /\ UNCHANGED <<stage, uninit_handler>>

\* run_handler_forever, Event::Timer: one gossip round
TimerStep(n) ==
    /\ stage[n] = "initialized"
    /\ \E neighbors_to_inform \in
            ChooseMultiple(initialized_handler[n].neighbors,
                           NUM_RANDOM_NEIGHBORS_TO_INFORM) :
         LET outcome == handle_gossip_timer(initialized_handler[n],
                                            neighbors_to_inform)
         IN  /\ outcome.self.current_msg_id <= MaxGossipMsgId
             /\ initialized_handler' =
                   [initialized_handler EXCEPT ![n] = outcome.self]
             /\ written' = outcome.out
             /\ result' = NoResult
    /\ event' = TimerEvent(n)
    /\ UNCHANGED <<stage, uninit_handler, delivered>>

\* ------------------------------------------- one node, any input (Spec)
\* the node whose stdin the harness feeds, and the names of its peers
NodesUnderTest == {1}
Self == <<"n", "1">>
Peers == {FormatNodeId(1 + k) : k \in 1..NumPeers}

\* node ids an init request may carry: all lead to machine id 1 or to an error
InitNodeIds ==
    {<<"n", "1">>, <<"x", "1">>, <<"n">>, <<"n", "6", "5", "5", "3", "6">>}

\* topology payloads: no entry at all, an entry for another node only, or
\* the entry of the node under test
Topologies ==
    {<<>>} \cup {(k :> <<Self>>) : k \in Peers}
           \cup {(Self :> list) : list \in NeighborLists(Peers)}

Requests ==
       {MessageBody_Init(i, id) : i \in ClientMsgIds, id \in InitNodeIds}
  \cup {MessageBody_Echo(i, <<"h", "i">>) : i \in ClientMsgIds}
  \cup {MessageBody_Generate(i) : i \in ClientMsgIds}
  \cup {MessageBody_Broadcast(i, v) : i \in ClientMsgIds, v \in Values}
  \cup {MessageBody_Read(i) : i \in ClientMsgIds}
  \cup {MessageBody_Topology(i, t) : i \in ClientMsgIds, t \in Topologies}

Responses ==
    {MessageBody_InitOk(0), MessageBody_EchoOk(0, 0, <<"h", "i">>),
     MessageBody_GenerateOk(I64(0), 0),
     MessageBody_BroadcastOk(0), MessageBody_ReadOk(0, {}),
     MessageBody_TopologyOk(0)}

\* the lines the harness may put on the stdin of the node under test
Inputs ==
       {Message(c, Self, b) : c \in Clients, b \in Requests \cup Responses}
  \cup {Message(src, Self, MessageBody_InformNewBroadcast(i, ms)) :
          src \in Peers, i \in ClientMsgIds, ms \in SUBSET Values}
  \cup {Message(src, Self, MessageBody_InformNewBroadcastOk(i)) :
          src \in Peers, i \in GossipMsgIds}

\* the event loop and the id generator while a specification does not run them
NoId == <<>>
NoArgs == [machine_id |-> 0, timestamp |-> <<>>, sequence |-> 0]
NoLine == [text |-> "none", message |-> NoMessage]
NoLoopEvent == [type |-> "None", line |-> NoLine, k |-> 0]

ThreadsNotStarted ==
    /\ process = "running"
    /\ channel = <<>>
    /\ stdin_thread = [pc |-> "lines", line |-> NoLine, sent |-> 0]
    /\ timer_thread = [pc |-> "sleep", sent |-> 0]
    /\ handler_thread = [pc |-> "recv", event |-> NoLoopEvent, out |-> <<>>,
                         received |-> [Message |-> 0, Timer |-> 0]]

NoGenerator ==
    /\ overflow_checks = FALSE
    /\ generator = SnowflakeIdGenerator_new(0, 0)
    /\ started = SnowflakeIdGenerator_new(0, 0)
    /\ calls = 0
    /\ snowflake_id = NoId
    /\ id_args = NoArgs

\* every node before its handshake
NodesNotStarted ==
    /\ stage = [n \in Nodes |-> "uninit"]
    /\ uninit_handler = [n \in Nodes |-> UninitHandler_new]
    /\ initialized_handler = [n \in Nodes |-> InitializedHandler_new(0)]
    /\ event = NoEvent
    /\ result = NoResult
    /\ written = <<>>
    /\ delivered = [n \in Nodes |-> {}]
    /\ net = {}

Init == NodesNotStarted /\ ThreadsNotStarted /\ NoGenerator

Next ==
    \/ \E n \in NodesUnderTest, message \in Inputs :
         UninitStep(n, message) /\ UNCHANGED <<net, process, loop_vars, id_vars>>
    \/ \E n \in NodesUnderTest : Promote(n) /\ UNCHANGED <<net, process, loop_vars, id_vars>>
    \/ \E n \in NodesUnderTest, message \in Inputs :
         InitializedStep(n, message) /\ UNCHANGED <<net, process, loop_vars, id_vars>>
    \/ \E n \in NodesUnderTest : TimerStep(n) /\ UNCHANGED <<net, process, loop_vars, id_vars>>

Spec == Init /\ [][Next]_vars

\* ------------------------------------------- the unique ids (SpecIds)
MaxCalls == 3

\* u16 machine ids and sequences, inside and outside the width of their field
MachineIds == {0, 378, 1023, 1024 + 378}
GeneratorMachineIds == {1023, 1024 + 378}
SequenceNumbers == {0, 4095, 4096 + 1}

\* sequences a generator starts at: the default, and just below the width
\* of the field and of the u16
StartSequences == {0, 4096 - 2, U16_MAX - 1}

\* timestamp_millis() of the clock: from the epoch of the ids to the last
\* millisecond of the 42-bit window, and the first one after it
Timestamps ==
    {Add(EPOCH_START_MS, offset) :
       offset \in {I64(0), I64(1), I64Of(171, 377781640), I64Of(1024, 0),
                   I64Of(2047, 2147483647), I64Of(2048, 0)}}

\* SnowflakeId::new called on its own
NewId(machine_id, timestamp, sequence) ==
    /\ process = "running"
    /\ snowflake_id' = SnowflakeId_new(machine_id, timestamp, sequence)
    /\ id_args' = [machine_id |-> machine_id, timestamp |-> timestamp,
                   sequence |-> sequence]
    /\ UNCHANGED <<process, overflow_checks, generator, started, calls>>

\* one generate() call; where self.sequence += 1 overflows, the build with
\* overflow checks panics before the id is returned
GenerateId(timestamp) ==
    /\ process = "running"
    /\ calls < MaxCalls
    /\ calls' = calls + 1
    /\ LET generated == SnowflakeIdGenerator_generate(generator, timestamp)
       IN  IF generated.overflow /\ overflow_checks
           THEN /\ process' = "panicked"
                /\ UNCHANGED <<generator, snowflake_id, id_args>>
           ELSE /\ generator' = generated.self
                /\ snowflake_id' = generated.id
                /\ id_args' = [machine_id |-> generator.machine_id,
                               timestamp |-> timestamp,
                               sequence |-> generator.sequence]
                /\ UNCHANGED process
    /\ UNCHANGED <<overflow_checks, started>>

IdsInit ==
    /\ NodesNotStarted
    /\ ThreadsNotStarted
    /\ overflow_checks \in BOOLEAN
    /\ \E machine_id \in GeneratorMachineIds, sequence \in StartSequences :
         generator = SnowflakeIdGenerator_new(machine_id, sequence)
    /\ started = generator
    /\ calls = 0
    /\ snowflake_id = NoId
    /\ id_args = NoArgs

IdsNext ==
    \/ \E machine_id \in MachineIds, timestamp \in Timestamps,
          sequence \in SequenceNumbers :
         NewId(machine_id, timestamp, sequence) /\ UNCHANGED <<node_vars, loop_vars>>
    \/ \E timestamp \in Timestamps :
         GenerateId(timestamp) /\ UNCHANGED <<node_vars, loop_vars>>

SpecIds == IdsInit /\ [][IdsNext]_vars

\* --------------------------------------------- the event loop (SpecLoop)
MaxLines == 2
MaxTicks == 10

\* a line of stdin: the JSON text of a message, or text that is none
Line(message) == [text |-> "json", message |-> message]
BadLine(text) == [text |-> text, message |-> NoMessage]

\* serde_json::from_str::<Message>(line): Ok(message) or Err
serde_json_from_str(line) ==
    IF line.text = "json" THEN [ok |-> TRUE, message |-> line.message]
    ELSE [ok |-> FALSE, message |-> NoMessage]

\* Event::Message(line) and Event::Timer; k numbers the events of a producer
Event_Message(line, k) == [type |-> "Message", line |-> line, k |-> k]
Event_Timer(k) == [type |-> "Timer", line |-> NoLine, k |-> k]

\* the lines stdin may carry: a request that is served, a request the
\* InitializedHandler rejects, and three lines that do not decode
LoopLines ==
    {Line(Message(<<"c", "1">>, Self, MessageBody_Broadcast(0, 1))),
     Line(Message(<<"c", "1">>, Self, MessageBody_Init(0, Self))),
     BadLine("malformed_json"), BadLine("unknown_type"), BadLine("missing_field")}

\* the stdin thread: lines.next()
StdinRead(line) ==
    /\ process = "running"
    /\ stdin_thread.pc = "lines"
    /\ stdin_thread.sent < MaxLines
    /\ stdin_thread' = [stdin_thread EXCEPT !.pc = "send", !.line = line]
    /\ UNCHANGED <<channel, timer_thread, handler_thread, process, node_vars, id_vars>>

\* the stdin thread: stdin_tx.send(Event::Message(line)), which blocks while
\* the channel holds CHANNEL_SIZE events
StdinSend ==
    /\ process = "running"
    /\ stdin_thread.pc = "send"
    /\ Len(channel) < CHANNEL_SIZE
    /\ channel' = Append(channel,
                         Event_Message(stdin_thread.line, stdin_thread.sent + 1))
    /\ stdin_thread' = [pc |-> "lines", line |-> NoLine,
                        sent |-> stdin_thread.sent + 1]
    /\ UNCHANGED <<timer_thread, handler_thread, process, node_vars, id_vars>>

\* the timer thread: thread::sleep returns
TimerSleep ==
    /\ process = "running"
    /\ timer_thread.pc = "sleep"
    /\ timer_thread.sent < MaxTicks
    /\ timer_thread' = [timer_thread EXCEPT !.pc = "send"]
    /\ UNCHANGED <<channel, stdin_thread, handler_thread, process, node_vars, id_vars>>

\* the timer thread: events_tx.send(Event::Timer)
TimerSend ==
    /\ process = "running"
    /\ timer_thread.pc = "send"
    /\ Len(channel) < CHANNEL_SIZE
    /\ channel' = Append(channel, Event_Timer(timer_thread.sent + 1))
    /\ timer_thread' = [pc |-> "sleep", sent |-> timer_thread.sent + 1]
    /\ UNCHANGED <<stdin_thread, handler_thread, process, node_vars, id_vars>>

\* the mutant calls recv while the event in hand is still being served
CanRecv_early(thread) == thread.pc \in {"recv", "write"}

\* run_handler_forever is at rx.recv()
CanRecv(thread) == thread.pc = "recv"

\* run_handler_forever: rx.recv() returns the oldest event
Recv ==
    /\ process = "running"
    /\ CanRecv(handler_thread)
    /\ channel # <<>>
    /\ channel' = Tail(channel)
    /\ handler_thread' =
         [handler_thread EXCEPT
            !.pc = "handle",
            !.event = Head(channel),
            !.received[Head(channel).type] = @ + 1]
    /\ UNCHANGED <<stdin_thread, timer_thread, process, node_vars, id_vars>>

\* what serving an event does to the handler of node n: handle_single_line
\* or handle_gossip_timer; a line that does not decode panics at unwrap()
Served(n, loop_event, neighbors_to_inform, timestamp_ms) ==
    IF loop_event.type = "Timer"
    THEN handle_gossip_timer(initialized_handler[n], neighbors_to_inform)
    ELSE IF ~serde_json_from_str(loop_event.line).ok
    THEN Outcome(initialized_handler[n], <<>>, "panic")
    ELSE InitializedHandler_handle_message(
           initialized_handler[n], serde_json_from_str(loop_event.line).message,
           timestamp_ms)

\* run_handler_forever: the match on the event in hand; the lines it sends
\* are written one by one by Write
Handle(n) ==
    /\ process = "running"
    /\ handler_thread.pc = "handle"
    /\ \E neighbors_to_inform \in
            ChooseMultiple(initialized_handler[n].neighbors,
                           NUM_RANDOM_NEIGHBORS_TO_INFORM),
          timestamp_ms \in Clock :
         LET outcome == Served(n, handler_thread.event, neighbors_to_inform,
                               timestamp_ms)
         IN  /\ initialized_handler' =
                   [initialized_handler EXCEPT ![n] = outcome.self]
             /\ result' = outcome.res
             /\ process' = IF outcome.res = "panic" THEN "panicked" ELSE "running"
             /\ handler_thread' =
                   [handler_thread EXCEPT
                      !.pc = IF outcome.res = "panic" THEN "panicked"
                             ELSE IF outcome.out = <<>> THEN "recv"
                             ELSE "write",
                      !.out = outcome.out]
    /\ event' = IF handler_thread.event.type = "Timer" THEN TimerEvent(n)
                ELSE MessageEvent(n, handler_thread.event.line.message)
    /\ written' = <<>>
    /\ UNCHANGED <<channel, stdin_thread, timer_thread, stage, uninit_handler,
                   delivered, net, id_vars>>

\* send_message: the next line of the event in hand goes to stdout
Write ==
    /\ process = "running"
    /\ handler_thread.pc = "write"
    /\ written' = Append(written, handler_thread.out[Len(written) + 1])
    /\ handler_thread' =
         [handler_thread EXCEPT
            !.pc = IF Len(written) + 1 = Len(handler_thread.out)
                   THEN "recv" ELSE "write"]
    /\ UNCHANGED <<channel, stdin_thread, timer_thread, process, stage,
                   uninit_handler, initialized_handler, event, result,
                   delivered, net, id_vars>>

\* node 1 promoted and told its one neighbour, the three threads started
LoopInit ==
    /\ stage = [n \in Nodes |-> IF n \in NodesUnderTest THEN "initialized" ELSE "uninit"]
    /\ uninit_handler =
         [n \in Nodes |-> IF n \in NodesUnderTest THEN [machine_id |-> n]
                          ELSE UninitHandler_new]
    /\ initialized_handler =
         [n \in Nodes |->
            IF n \in NodesUnderTest
            THEN handle_topology(InitializedHandler_new(n),
                                 (Self :> <<FormatNodeId(2)>>))
            ELSE InitializedHandler_new(0)]
    /\ event = NoEvent
    /\ result = NoResult
    /\ written = <<>>
    /\ delivered = [n \in Nodes |-> {}]
    /\ net = {}
    /\ ThreadsNotStarted
    /\ NoGenerator

LoopNext ==
    \/ \E line \in LoopLines : StdinRead(line)
    \/ StdinSend
    \/ TimerSleep
    \/ TimerSend
    \/ Recv
    \/ \E n \in NodesUnderTest : Handle(n)
    \/ Write

\* the handler thread is scheduled again and again while the process lives
LoopFairness ==
    /\ WF_vars(Recv)
    /\ \A n \in NodesUnderTest : WF_vars(Handle(n))
    /\ WF_vars(Write)

SpecLoop == LoopInit /\ [][LoopNext]_vars /\ LoopFairness

\* --------------------------------------------- clusters of nodes
\* In a cluster the harness takes every line a node writes as it is written
\* and routes it by its dest; event, result, written and delivered, which
\* watch the one node of Spec, stay as they are.
NodeNumber(id) == CHOOSE k \in Nodes : FormatNodeId(k) = id

\* the lines of a step that the harness routes to nodes
ToNodes(lines) == {lines[i] : i \in {j \in 1..Len(lines) : lines[j].dest \in NodeIds}}

\* run_handler_forever, Event::Message, at node n of a cluster
ClusterMessage(n, message) ==
    /\ stage[n] = "initialized"
    /\ \E timestamp_ms \in Clock :
         LET outcome == InitializedHandler_handle_message(
                          initialized_handler[n], message, timestamp_ms)
         IN  /\ initialized_handler' =
                   [initialized_handler EXCEPT ![n] = outcome.self]
             /\ net' = net \cup ToNodes(outcome.out)
    /\ UNCHANGED <<stage, uninit_handler, event, result, written, delivered,
                   process, loop_vars, id_vars>>

\* a client broadcasts a value at node n
ClientBroadcast(n, value) ==
    ClusterMessage(n, Message(<<"c", "1">>, FormatNodeId(n),
                              MessageBody_Broadcast(0, value)))

\* run_handler_forever, Event::Timer, at node n of a cluster
Tick(n) ==
    /\ stage[n] = "initialized"
    /\ \E neighbors_to_inform \in
            ChooseMultiple(initialized_handler[n].neighbors,
                           NUM_RANDOM_NEIGHBORS_TO_INFORM) :
         LET outcome == handle_gossip_timer(initialized_handler[n],
                                            neighbors_to_inform)
         IN  /\ outcome.self.current_msg_id <= MaxGossipMsgId
             /\ initialized_handler' =
                   [initialized_handler EXCEPT ![n] = outcome.self]
             /\ net' = net \cup ToNodes(outcome.out)
    /\ UNCHANGED <<stage, uninit_handler, event, result, written, delivered,
                   process, loop_vars, id_vars>>

\* the harness delivers a line it holds to its destination.  It keeps every
\* line a node wrote: it may deliver one late, several times, after a later
\* one, or never
Deliver(message) ==
    /\ message \in net
    /\ \E n \in Nodes :
         /\ initialized_handler[n].node_id = message.dest
         /\ ClusterMessage(n, message)

\* delivery of some gossip packet from src to dest that carries messages
DeliverPacket(src, dest, messages) ==
    \E message \in net :
      /\ message.src = src
      /\ message.dest = dest
      /\ message.body.type = "inform_new_broadcast"
      /\ message.body.messages = messages
      /\ Deliver(message)

\* ------------------------------- three nodes on a line (SpecCluster)
ClusterValues == 1..MaxClusterValue

\* the topology the harness hands out: node k next to k - 1 and k + 1
LineTopology ==
    [id \in NodeIds |->
       LET k == NodeNumber(id)
       IN  (IF k > 1 THEN <<FormatNodeId(k - 1)>> ELSE <<>>)
             \o (IF k < NumNodes THEN <<FormatNodeId(k + 1)>> ELSE <<>>)]

\* every node after its handshake, its promotion and the topology request
ClusterInit ==
    /\ stage = [n \in Nodes |-> "initialized"]
    /\ uninit_handler = [n \in Nodes |-> [machine_id |-> n]]
    /\ initialized_handler =
         [n \in Nodes |-> handle_topology(InitializedHandler_new(n), LineTopology)]
    /\ event = NoEvent
    /\ result = NoResult
    /\ written = <<>>
    /\ delivered = [n \in Nodes |-> {}]
    /\ net = {}
    /\ ThreadsNotStarted
    /\ NoGenerator

ClusterNext ==
    \/ \E n \in Nodes, value \in ClusterValues : ClientBroadcast(n, value)
    \/ \E n \in Nodes : Tick(n)
    \/ \E message \in net : Deliver(message)

\* the timer thread fires for ever at every node; of the packets sent from
\* src to dest with the same content, one is delivered in the end
ClusterFairness ==
    /\ \A n \in Nodes : WF_vars(Tick(n))
    /\ \A src \in NodeIds, dest \in NodeIds, messages \in SUBSET ClusterValues :
         WF_vars(DeliverPacket(src, dest, messages))

SpecCluster == ClusterInit /\ [][ClusterNext]_vars /\ ClusterFairness

\* --------------------- the line with a reliable network (SpecQuiet)
\* every acknowledgment a node wrote is delivered in the end
AckFairness ==
    \A src \in NodeIds, dest \in NodeIds, msg_id \in GossipMsgIds :
      WF_vars(Deliver(Message(src, dest,
                              MessageBody_InformNewBroadcastOk(msg_id))))

SpecQuiet ==
    ClusterInit /\ [][ClusterNext]_vars /\ ClusterFairness /\ AckFairness

\* ------------------------ two nodes and a silent neighbour (SpecPair)
\* nodes 1 and 2 run; node 1 also lists a neighbour that never started
PairNodes == {1, 2}

PairTopology ==
    (FormatNodeId(1) :> <<FormatNodeId(2), FormatNodeId(3)>>)
      @@ (FormatNodeId(2) :> <<FormatNodeId(1)>>)

PairInit ==
    /\ stage = [n \in Nodes |-> IF n \in PairNodes THEN "initialized" ELSE "uninit"]
    /\ uninit_handler =
         [n \in Nodes |-> IF n \in PairNodes THEN [machine_id |-> n]
                          ELSE UninitHandler_new]
    /\ initialized_handler =
         [n \in Nodes |->
            IF n \in PairNodes
            THEN handle_topology(InitializedHandler_new(n), PairTopology)
            ELSE InitializedHandler_new(0)]
    /\ event = NoEvent
    /\ result = NoResult
    /\ written = <<>>
    /\ delivered = [n \in Nodes |-> {}]
    /\ net = {}
    /\ ThreadsNotStarted
    /\ NoGenerator

PairNext ==
    \/ \E n \in PairNodes, value \in Values : ClientBroadcast(n, value)
    \/ \E n \in PairNodes : Tick(n)
    \/ \E message \in net : Deliver(message)

SpecPair == PairInit /\ [][PairNext]_vars

\* ----------------------------------------------------------------- claims
Range(seq) == {seq[i] : i \in 1..Len(seq)}

\* KnowledgeMap[id] of a handler, empty when there is no entry
KnownTo(self, id) ==
    IF id \in DOMAIN self.known_messages_to_neighbors
    THEN self.known_messages_to_neighbors[id] ELSE {}

\* the step just taken handled a line of the given type at node n
Handled(n, type) ==
    /\ event'.type = "Message"
    /\ event'.node = n
    /\ event'.message.body.type = type

\* some node cannot run its next gossip round within MaxGossipMsgId
GossipBoundReached ==
    \E n \in Nodes :
      /\ stage[n] = "initialized"
      /\ \A neighbors_to_inform \in
              ChooseMultiple(initialized_handler[n].neighbors,
                             NUM_RANDOM_NEIGHBORS_TO_INFORM) :
           handle_gossip_timer(initialized_handler[n], neighbors_to_inform)
             .self.current_msg_id > MaxGossipMsgId

Converged(value) == \A n \in Nodes : value \in initialized_handler[n].messages

GossipRoundTrips(a, b, neighbors_to_inform) ==
    LET round == handle_gossip_timer(a, neighbors_to_inform)
        packets == {round.out[i] :
                      i \in {j \in 1..Len(round.out) : round.out[j].dest = b.node_id}}
    IN  {LET at_b == InitializedHandler_handle_message(b, packet, 0)
             at_a == InitializedHandler_handle_message(round.self, at_b.out[1], 0)
         IN  [round |-> round, packet |-> packet, b |-> at_b.self, a |-> at_a.self]
         : packet \in packets}

\* node a knows node b as a neighbour and has an empty pending table
RoundTripReady(a, b) ==
    /\ a # b
    /\ stage[a] = "initialized"
    /\ stage[b] = "initialized"
    /\ initialized_handler[b].node_id \in Range(initialized_handler[a].neighbors)
    /\ DOMAIN initialized_handler[a].pending_messages_sent = {}

\* C2 as claimed: after the round, the packet's delivery to B and the
\* delivery of B's acknowledgment, B has S \ K, A's KnowledgeMap[B] is
\* K union (S \ K) and A's pending table is empty again.
C2_Original ==
    \A a, b \in Nodes :
      RoundTripReady(a, b) =>
        LET A == initialized_handler[a]
            B == initialized_handler[b]
            S == A.messages
            K == KnownTo(A, B.node_id)
        IN  \A neighbors_to_inform \in
                 ChooseMultiple(A.neighbors, NUM_RANDOM_NEIGHBORS_TO_INFORM) :
              \A trip \in GossipRoundTrips(A, B, neighbors_to_inform) :
                /\ (S \ K) \subseteq trip.b.messages
                /\ KnownTo(trip.a, B.node_id) = K \cup (S \ K)
                /\ DOMAIN trip.a.pending_messages_sent = {}

\* C2 (amended): after the round, the packet's delivery to B and the delivery
\* of B's acknowledgment, B has S \ K, A's KnowledgeMap[B] is K union (S \ K),
\* and A's pending table has lost exactly that packet's entry: it is empty
\* again when the round sent no other packet.
C2_GossipRoundTrip ==
    \A a, b \in Nodes :
      RoundTripReady(a, b) =>
        LET A == initialized_handler[a]
            B == initialized_handler[b]
            S == A.messages
            K == KnownTo(A, B.node_id)
        IN  \A neighbors_to_inform \in
                 ChooseMultiple(A.neighbors, NUM_RANDOM_NEIGHBORS_TO_INFORM) :
              \A trip \in GossipRoundTrips(A, B, neighbors_to_inform) :
                /\ trip.packet.body.messages = S \ K
                /\ (S \ K) \subseteq trip.b.messages
                /\ KnownTo(trip.a, B.node_id) = K \cup (S \ K)
                /\ DOMAIN trip.a.pending_messages_sent
                     = DOMAIN trip.round.self.pending_messages_sent
                         \ {trip.packet.body.msg_id}
                /\ Len(trip.round.out) = 1
                     => DOMAIN trip.a.pending_messages_sent = {}

\* a node that gossiped to a neighbour holding part of its values already,
\* got the acknowledgment and has an empty pending table again
C2_Witness ==
    \E a, b \in Nodes :
      /\ RoundTripReady(a, b)
      /\ LET A == initialized_handler[a]
             B == initialized_handler[b]
         IN  /\ A.current_msg_id > 1
             /\ A.messages = Values
             /\ KnownTo(A, B.node_id) = A.messages
             /\ A.messages \subseteq B.messages

\* C3: in a gossip round every packet sent carries exactly the non-empty set
\* Seen-Messages minus KnowledgeMap[neighbour]; a neighbour whose entry holds
\* every seen value gets no packet and no pending entry, and the counter
\* advances by exactly the number of packets sent.
C3_NoRedundantGossip ==
    [][\A n \in Nodes :
         (event'.type = "Timer" /\ event'.node = n) =>
           LET self == initialized_handler[n]
               after == initialized_handler'[n]
               fresh == DOMAIN after.pending_messages_sent
                          \ DOMAIN self.pending_messages_sent
           IN  /\ \A i \in 1..Len(written') :
                    /\ written'[i].src = self.node_id
                    /\ written'[i].body.type = "inform_new_broadcast"
                    /\ written'[i].body.messages =
                         self.messages \ KnownTo(self, written'[i].dest)
                    /\ written'[i].body.messages # {}
               /\ \A neighbor \in Range(self.neighbors) :
                    self.messages \subseteq KnownTo(self, neighbor) =>
                      /\ \A i \in 1..Len(written') : written'[i].dest # neighbor
                      /\ \A id \in fresh :
                           after.pending_messages_sent[id].dst # neighbor
               /\ after.current_msg_id = self.current_msg_id + Len(written')
               /\ Cardinality(fresh) = Len(written')
      ]_vars

\* a round that skipped a neighbour already credited with every seen value
C3_Witness ==
    /\ event.type = "Timer"
    /\ written = <<>>
    /\ LET self == initialized_handler[event.node]
       IN  /\ self.messages # {}
           /\ \E neighbor \in Range(self.neighbors) :
                self.messages \subseteq KnownTo(self, neighbor)

\* C4: the Seen-Messages Set of an initialized node only grows, whatever
\* event is processed.
C4_SeenMessagesGrow ==
    [][\A n \in Nodes :
         stage[n] = "initialized" =>
           initialized_handler[n].messages
             \subseteq initialized_handler'[n].messages
      ]_vars

\* a gossip packet was merged into a set that held other values already
C4_Witness ==
    /\ event.type = "Message"
    /\ event.message.body.type = "inform_new_broadcast"
    /\ stage[event.node] = "initialized"
    /\ event.message.body.messages # {}
    /\ initialized_handler[event.node].messages
         \ event.message.body.messages # {}

\* C5: a broadcast of a value already seen leaves the set unchanged, and a
\* read returns exactly the values the node received so far through client
\* broadcasts and inbound gossip.
C5_IdempotentBroadcastExactRead ==
    [][\A n \in Nodes :
         stage[n] = "initialized" =>
           /\ (Handled(n, "broadcast")
                 /\ event'.message.body.message \in initialized_handler[n].messages)
                => initialized_handler'[n].messages = initialized_handler[n].messages
           /\ Handled(n, "read") =>
                /\ Len(written') = 1
                /\ written'[1].body.type = "read_ok"
                /\ written'[1].body.messages = delivered[n]
      ]_vars

\* a read answered with every value of the model, each listed once
C5_Witness ==
    /\ event.type = "Message"
    /\ event.message.body.type = "read"
    /\ Len(written) = 1
    /\ written[1].body.type = "read_ok"
    /\ written[1].body.messages = Values

\* C6 as claimed: no event ever removes a value from a knowledge-map entry.
C6_Original ==
    [][\A n \in Nodes :
         stage[n] = "initialized" =>
           \A id \in DOMAIN initialized_handler[n].known_messages_to_neighbors :
             /\ id \in DOMAIN initialized_handler'[n].known_messages_to_neighbors
             /\ KnownTo(initialized_handler[n], id)
                  \subseteq KnownTo(initialized_handler'[n], id)
      ]_vars

\* the step just taken was a topology update at n whose payload lists id
\* among the neighbours of n
TopologyLists(n, id) ==
    /\ Handled(n, "topology")
    /\ initialized_handler[n].node_id \in DOMAIN event'.message.body.topology
    /\ id \in Range(event'.message.body.topology[initialized_handler[n].node_id])

\* C6 (amended): an entry of the knowledge map never disappears, and it loses
\* values only in a topology update that lists its neighbour, which resets
\* the entry to empty; every other event leaves it a superset.
C6_KnowledgeGrowsBetweenTopologies ==
    [][\A n \in Nodes :
         stage[n] = "initialized" =>
           \A id \in DOMAIN initialized_handler[n].known_messages_to_neighbors :
             /\ id \in DOMAIN initialized_handler'[n].known_messages_to_neighbors
             /\ IF TopologyLists(n, id)
                THEN KnownTo(initialized_handler'[n], id) = {}
                ELSE KnownTo(initialized_handler[n], id)
                       \subseteq KnownTo(initialized_handler'[n], id)
      ]_vars

\* a gossip packet was folded into a sender's entry that held another value
C6_Witness ==
    /\ event.type = "Message"
    /\ event.message.body.type = "inform_new_broadcast"
    /\ stage[event.node] = "initialized"
    /\ KnownTo(initialized_handler[event.node], event.message.src)
         \ event.message.body.messages # {}

\* C7: a topology request with an entry for this node makes the neighbour
\* sequence exactly the delivered list and leaves every listed neighbour with
\* an empty knowledge entry; with no entry for this node neighbours and
\* knowledge map stay as they were; either way exactly one topology_ok.
C7_TopologyReplaces ==
    [][\A n \in Nodes :
         (stage[n] = "initialized" /\ Handled(n, "topology")) =>
           LET self == initialized_handler[n]
               after == initialized_handler'[n]
               topology == event'.message.body.topology
           IN  /\ IF self.node_id \in DOMAIN topology
                  THEN /\ after.neighbors = topology[self.node_id]
                       /\ \A id \in Range(topology[self.node_id]) :
                            /\ id \in DOMAIN after.known_messages_to_neighbors
                            /\ after.known_messages_to_neighbors[id] = {}
                  ELSE /\ after.neighbors = self.neighbors
                       /\ after.known_messages_to_neighbors
                            = self.known_messages_to_neighbors
               /\ Len(written') = 1
               /\ written'[1].body = MessageBody_TopologyOk(event'.message.body.msg_id)
      ]_vars

\* a topology update left the node with fewer neighbours than it has
\* knowledge entries: an earlier neighbour is gone from the sequence
C7_Witness ==
    /\ event.type = "Message"
    /\ event.message.body.type = "topology"
    /\ stage[event.node] = "initialized"
    /\ LET self == initialized_handler[event.node]
       IN  /\ self.node_id \in DOMAIN event.message.body.topology
           /\ self.neighbors = event.message.body.topology[self.node_id]
           /\ DOMAIN self.known_messages_to_neighbors \ Range(self.neighbors) # {}

OkTypeOf(type) ==
    CASE type = "init" -> "init_ok"
      [] type = "echo" -> "echo_ok"
      [] type = "generate" -> "generate_ok"
      [] type = "broadcast" -> "broadcast_ok"
      [] type = "read" -> "read_ok"
      [] type = "topology" -> "topology_ok"
      [] type = "inform_new_broadcast" -> "inform_new_broadcast_ok"

\* C8: every request the node answers gets exactly one response, of the
\* matching *_ok type, with in_reply_to = the request's msg_id and dest = the
\* request's src; the Initialized stage answers every request but init; a
\* delivered *_ok line never causes any output.
C8_ResponseAddressing ==
    [][\A n \in Nodes :
         (event'.type = "Message" /\ event'.node = n) =>
           LET message == event'.message IN
           /\ (message.body.type \in RequestTypes /\ result' = Ok) =>
                /\ Len(written') = 1
                /\ written'[1].body.type = OkTypeOf(message.body.type)
                /\ written'[1].body.in_reply_to = message.body.msg_id
                /\ written'[1].dest = message.src
           /\ (message.body.type \in RequestTypes \ {"init"}
                 /\ stage[n] = "initialized") => result' = Ok
           /\ message.body.type \notin RequestTypes => written' = <<>>
      ]_vars

\* a request with a non-zero msg_id answered to its sender
C8_Witness ==
    /\ event.type = "Message"
    /\ event.message.body.type = "generate"
    /\ event.message.body.msg_id = MaxClientMsgId
    /\ Len(written) = 1
    /\ written[1].body.in_reply_to = MaxClientMsgId
    /\ written[1].dest = event.message.src

IsNodeIdLiteral(node_id) ==
    /\ Len(node_id) >= 2
    /\ Head(node_id) = "n"
    /\ \A i \in 2..Len(node_id) : IsDigit(node_id[i])
    /\ DigitsValue(Tail(node_id), 0) <= U16_MAX

\* C10: in the Uninitialized state an init succeeds only for a node_id that
\* is "n" followed by an unsigned 16-bit integer; any other node_id fails
\* with the invalid-identity error, emits no init_ok and leaves the handler
\* as it was (not eligible for promotion if it was not).
C10_IdentityParsing ==
    [][\A n \in Nodes :
         (Handled(n, "init") /\ stage[n] = "uninit") =>
           /\ result' = Ok => IsNodeIdLiteral(event'.message.body.node_id)
           /\ ~IsNodeIdLiteral(event'.message.body.node_id) =>
                /\ result' = InvalidMachineId
                /\ written' = <<>>
                /\ uninit_handler'[n] = uninit_handler[n]
      ]_vars

\* the milliseconds between the epoch of the ids and a timestamp, and
\* whether they fit 42 bits: the limbs above bit 41 are zero
Offset(timestamp) == Sub(timestamp, EPOCH_START_MS)
InWindow(timestamp) == Offset(timestamp)[1] = 0 /\ Offset(timestamp)[2] < 1024

\* the last id was built from a machine id, a sequence and a timestamp that
\* fit their fields
ValidIdArgs ==
    /\ snowflake_id # NoId
    /\ id_args.machine_id < 1024
    /\ id_args.sequence < 4096
    /\ InWindow(id_args.timestamp)

\* C14: an id built from a machine_id below 1024, a sequence below 4096 and
\* a timestamp in the 42-bit window is offset * 2^22 + machine_id * 2^12 +
\* sequence, and machine_id(), sequence() and timestamp() give back the three
\* arguments.
C14_IdentifierRoundTrip ==
    ValidIdArgs =>
      /\ snowflake_id =
           Add(Shl(Offset(id_args.timestamp), 22),
               I64(id_args.machine_id * 4096 + id_args.sequence))
      /\ SnowflakeId_machine_id(snowflake_id) = id_args.machine_id
      /\ SnowflakeId_sequence(snowflake_id) = id_args.sequence
      /\ SnowflakeId_timestamp(snowflake_id) = id_args.timestamp

\* an id with the top bit of its timestamp set (a negative i64) and every
\* field non-zero
C14_Witness ==
    /\ ValidIdArgs
    /\ Offset(id_args.timestamp)[2] >= 512
    /\ id_args.machine_id > 0
    /\ id_args.sequence > 0
    /\ snowflake_id[1] >= 32768

\* C15 as claimed: the k-th generate() call of a generator started at
\* sequence s returns an id whose sequence field is (s + k) mod 4096 and whose
\* machine_id field is the generator's machine_id masked to 10 bits, the
\* counter moves on by one, and every call returns.
C15_GeneratorSequence ==
    [][calls' = calls + 1 =>
         /\ process' = "running"
         /\ SnowflakeId_sequence(snowflake_id') = (started.sequence + calls) % 4096
         /\ SnowflakeId_machine_id(snowflake_id') = started.machine_id % 1024
         /\ generator'.sequence % 4096 = (started.sequence + calls + 1) % 4096
         /\ generator'.machine_id = started.machine_id]_vars

\* steps of the event loop: the handler thread finishes the match on the
\* event in hand, takes an event from the channel; a producer moves
HandleStep == handler_thread.pc = "handle" /\ handler_thread'.pc # "handle"
RecvStep == handler_thread'.received # handler_thread.received
ProducerStep == stdin_thread' # stdin_thread \/ timer_thread' # timer_thread

\* C11 as claimed: a Message-event whose line does not decode, or whose
\* dispatch returns an error, leaves the node state as it was, writes nothing
\* to stdout, and the dispatcher is back at recv for the next event.
C11_BadMessageSurvived ==
    [][(HandleStep /\ handler_thread.event.type = "Message" /\ result' # Ok) =>
         /\ initialized_handler' = initialized_handler
         /\ handler_thread'.out = <<>>
         /\ process' = "running"
         /\ handler_thread'.pc = "recv"]_vars

\* the channel holds the event numbered k of a producer
Queued(type, k) ==
    \E i \in 1..Len(channel) : channel[i].type = type /\ channel[i].k = k

\* the event a producer is about to send
Sending(type) ==
    IF type = "Message"
    THEN Event_Message(stdin_thread.line, stdin_thread.sent + 1)
    ELSE Event_Timer(timer_thread.sent + 1)

\* C12 as claimed: the channel never holds more than CHANNEL_SIZE events; a
\* producer at send keeps its event while the channel is full and its send
\* appends that event; the handler thread takes the oldest event, which is
\* the next one of its producer; and every event in the channel is taken in
\* the end.
C12_HandOff ==
    /\ [](Len(channel) <= CHANNEL_SIZE)
    /\ [][/\ (stdin_thread.pc = "send" /\ stdin_thread' # stdin_thread) =>
               (Len(channel) < CHANNEL_SIZE
                  /\ channel' = Append(channel, Sending("Message")))
          /\ (timer_thread.pc = "send" /\ timer_thread' # timer_thread) =>
               (Len(channel) < CHANNEL_SIZE
                  /\ channel' = Append(channel, Sending("Timer")))
          /\ RecvStep =>
               /\ handler_thread'.event = Head(channel)
               /\ channel' = Tail(channel)
               /\ Head(channel).k =
                    handler_thread.received[Head(channel).type] + 1
          /\ (~RecvStep /\ ~ProducerStep) => channel' = channel]_vars
    /\ \A type \in {"Message", "Timer"}, k \in 1..(MaxLines + MaxTicks) :
         Queued(type, k) ~> (handler_thread.received[type] >= k)

\* C13: the handler thread takes an event only at recv, when every line the
\* event before caused has been written; a step of the stdin thread or of
\* the timer thread changes neither the handler (its seen values, knowledge
\* map and pending table) nor stdout; and only the handler thread's match
\* changes the handler.
C13_SerializedDispatch ==
    [][/\ RecvStep =>
            /\ handler_thread.pc = "recv"
            /\ written = handler_thread.out
            /\ UNCHANGED <<initialized_handler, written>>
       /\ ProducerStep =>
            UNCHANGED <<initialized_handler, written, handler_thread>>
       /\ initialized_handler' # initialized_handler => HandleStep
       /\ written' # written => handler_thread.pc \in {"handle", "write"}]_vars

\* the handler thread has just taken an event, after a broadcast and a gossip
\* round that wrote lines, while the channel holds more events and both
\* producers are at send
C13_Witness ==
    /\ handler_thread.pc = "handle"
    /\ handler_thread.received.Message >= 1
    /\ handler_thread.received.Timer >= 1
    /\ written # <<>>
    /\ initialized_handler[1].current_msg_id >= 1
    /\ channel # <<>>
    /\ stdin_thread.pc = "send"
    /\ timer_thread.pc = "send"


\* C16: an acknowledgment whose in_reply_to is not a key of the pending table
\* (an unexpected or a duplicate acknowledgment) leaves the handler as it was
\* and writes nothing; an acknowledgment whose in_reply_to is a key removes
\* exactly that entry, adds the entry's values to the knowledge-map entry of
\* the entry's destination and to no other, and writes nothing.
C16_AcknowledgmentHarmless ==
    [][\A n \in Nodes :
         (stage[n] = "initialized" /\ Handled(n, "inform_new_broadcast_ok")) =>
           LET self == initialized_handler[n]
               after == initialized_handler'[n]
               msg_id == event'.message.body.in_reply_to
           IN  /\ written' = <<>>
               /\ result' = Ok
               /\ IF msg_id \notin DOMAIN self.pending_messages_sent
                  THEN after = self
                  ELSE LET sent == self.pending_messages_sent[msg_id]
                       IN  /\ DOMAIN after.pending_messages_sent =
                                DOMAIN self.pending_messages_sent \ {msg_id}
                           /\ \A id \in DOMAIN after.pending_messages_sent :
                                after.pending_messages_sent[id] =
                                  self.pending_messages_sent[id]
                           /\ DOMAIN after.known_messages_to_neighbors =
                                DOMAIN self.known_messages_to_neighbors
                           /\ \A id \in DOMAIN self.known_messages_to_neighbors :
                                after.known_messages_to_neighbors[id] =
                                  IF id = sent.dst
                                  THEN KnownTo(self, id) \cup sent.messages
                                  ELSE KnownTo(self, id)
                           /\ after.messages = self.messages
                           /\ after.neighbors = self.neighbors
                           /\ after.current_msg_id = self.current_msg_id
                           /\ after.node_id = self.node_id
      ]_vars

\* a duplicate acknowledgment was handled: its msg_id was handed out earlier,
\* its entry is gone and credited, and other packets are still pending
C16_Witness ==
    /\ event.type = "Message"
    /\ event.message.body.type = "inform_new_broadcast_ok"
    /\ stage[event.node] = "initialized"
    /\ LET self == initialized_handler[event.node]
           msg_id == event.message.body.in_reply_to
       IN  /\ msg_id < self.current_msg_id
           /\ msg_id \notin DOMAIN self.pending_messages_sent
           /\ self.pending_messages_sent # <<>>
           /\ KnownTo(self, event.message.src) # {}
           /\ written = <<>>


\* the step just taken handled the acknowledgment of packet msg_id at node n
Acknowledged(n, msg_id) ==
    /\ Handled(n, "inform_new_broadcast_ok")
    /\ event'.message.body.in_reply_to = msg_id

\* the step just taken left the pending entry msg_id of node n in place
PendingKept(n, msg_id) ==
    /\ msg_id \in DOMAIN initialized_handler'[n].pending_messages_sent
    /\ initialized_handler'[n].pending_messages_sent[msg_id] =
         initialized_handler[n].pending_messages_sent[msg_id]

\* the values a step may add to KnowledgeMap[id] of node n: those of a packet
\* received from id, or those of an acknowledged pending packet sent to id
Credit(n, id) ==
    LET self == initialized_handler[n]
        body == event'.message.body
    IN  IF Handled(n, "inform_new_broadcast") /\ event'.message.src = id
        THEN body.messages
        ELSE IF /\ Handled(n, "inform_new_broadcast_ok")
                /\ body.in_reply_to \in DOMAIN self.pending_messages_sent
                /\ self.pending_messages_sent[body.in_reply_to].dst = id
             THEN self.pending_messages_sent[body.in_reply_to].messages
             ELSE {}

\* C17 as stated: while a pending packet to N stays unacknowledged, its entry
\* stays in the pending table, none of its values is added to
\* KnowledgeMap[N], and every round that selects N sends N a new packet with
\* a new msg_id that carries Seen-Messages minus KnowledgeMap[N] and still
\* includes every value of the unacknowledged packet.
C17_Original ==
    [][\A n \in Nodes :
         stage[n] = "initialized" =>
           LET self == initialized_handler[n]
               after == initialized_handler'[n]
           IN  \A msg_id \in DOMAIN self.pending_messages_sent :
                 LET sent == self.pending_messages_sent[msg_id]
                 IN  ~Acknowledged(n, msg_id) =>
                       /\ PendingKept(n, msg_id)
                       /\ sent.messages \cap KnownTo(after, sent.dst)
                            \subseteq KnownTo(self, sent.dst)
                       /\ (/\ event'.type = "Timer"
                           /\ event'.node = n
                           /\ sent.dst \in Range(self.neighbors)) =>
                            \E i \in 1..Len(written') :
                              /\ written'[i].dest = sent.dst
                              /\ written'[i].body.msg_id
                                   \notin DOMAIN self.pending_messages_sent
                              /\ written'[i].body.messages =
                                   self.messages \ KnownTo(self, sent.dst)
                              /\ sent.messages
                                   \subseteq written'[i].body.messages
      ]_vars

\* C17: while a pending packet to N stays unacknowledged, its entry stays in
\* the pending table; KnowledgeMap[N] grows only by the values of a packet
\* received from N or of an acknowledged packet sent to N; and every round
\* that selects N while Seen-Messages minus KnowledgeMap[N] is non-empty
\* sends N a new packet, under a msg_id not in the pending table and recorded
\* there, that carries that whole difference, hence every value of the
\* unacknowledged packet that KnowledgeMap[N] does not hold.
C17_LostAcknowledgmentDoesNotBlock ==
    [][\A n \in Nodes :
         stage[n] = "initialized" =>
           LET self == initialized_handler[n]
               after == initialized_handler'[n]
           IN  /\ \A msg_id \in DOMAIN self.pending_messages_sent :
                    ~Acknowledged(n, msg_id) => PendingKept(n, msg_id)
               /\ \A id \in NodeIds :
                    KnownTo(after, id) \ KnownTo(self, id)
                      \subseteq Credit(n, id)
               /\ (event'.type = "Timer" /\ event'.node = n) =>
                    \A neighbor \in Range(self.neighbors) :
                      LET diff == self.messages \ KnownTo(self, neighbor)
                      IN  diff # {} =>
                            /\ \E i \in 1..Len(written') :
                                 LET body == written'[i].body
                                 IN  /\ written'[i].dest = neighbor
                                     /\ body.type = "inform_new_broadcast"
                                     /\ body.messages = diff
                                     /\ body.msg_id \notin
                                          DOMAIN self.pending_messages_sent
                                     /\ body.msg_id \in
                                          DOMAIN after.pending_messages_sent
                                     /\ after.pending_messages_sent[body.msg_id]
                                          = [messages |-> diff, dst |-> neighbor]
                            /\ \A msg_id \in DOMAIN self.pending_messages_sent :
                                 LET sent == self.pending_messages_sent[msg_id]
                                 IN  sent.dst = neighbor =>
                                       sent.messages \ KnownTo(self, neighbor)
                                         \subseteq diff
      ]_vars

\* a round sent a neighbour a second packet while the first one, carrying
\* values the second one carries again, was still pending
C17_Witness ==
    /\ event.type = "Timer"
    /\ stage[event.node] = "initialized"
    /\ LET self == initialized_handler[event.node]
       IN  \E i \in 1..Len(written) :
             \E msg_id \in DOMAIN self.pending_messages_sent :
               LET sent == self.pending_messages_sent[msg_id]
               IN  /\ msg_id < written[i].body.msg_id
                   /\ sent.dst = written[i].dest
                   /\ sent.messages # {}
                   /\ sent.messages \subseteq written[i].body.messages
                   /\ sent.messages \cap KnownTo(self, sent.dst) = {}


\* C18: the gossip counter of a node starts at 0, never decreases, and moves
\* only in a gossip round, by one per packet sent; the packets of a round
\* carry the counter values counter, counter + 1, ... in order, none of them a
\* key of the pending table (the insertion never meets an occupied key), and
\* every key of the pending table is below the counter. Hence no two gossip
\* packets of one node carry the same msg_id.
C18_GossipMessageIdsUnique ==
    /\ [](\A n \in Nodes :
            stage[n] = "initialized" =>
              \A msg_id \in DOMAIN initialized_handler[n].pending_messages_sent :
                msg_id < initialized_handler[n].current_msg_id)
    /\ [][\A n \in Nodes :
            LET self == initialized_handler[n]
                after == initialized_handler'[n]
            IN  /\ (stage[n] # "initialized" /\ stage'[n] = "initialized") =>
                     /\ after.current_msg_id = 0
                     /\ after.pending_messages_sent = <<>>
                /\ stage[n] = "initialized" =>
                     IF event'.type = "Timer" /\ event'.node = n
                     THEN /\ after.current_msg_id =
                               self.current_msg_id + Len(written')
                          /\ \A i \in 1..Len(written') :
                               /\ written'[i].body.msg_id =
                                    self.current_msg_id + (i - 1)
                               /\ written'[i].body.msg_id \notin
                                    DOMAIN self.pending_messages_sent
                               /\ written'[i].body.msg_id \in
                                    DOMAIN after.pending_messages_sent
                          /\ DOMAIN after.pending_messages_sent =
                               DOMAIN self.pending_messages_sent \cup
                                 {written'[i].body.msg_id : i \in 1..Len(written')}
                     ELSE /\ after.current_msg_id = self.current_msg_id
                          /\ \A i \in 1..Len(written') :
                               written'[i].body.type # "inform_new_broadcast"
         ]_vars

\* a round sent a packet under a fresh msg_id while the packet of an earlier
\* round, to the same neighbour, was still pending under its own msg_id
C18_Witness ==
    /\ event.type = "Timer"
    /\ stage[event.node] = "initialized"
    /\ Len(written) >= 1
    /\ LET self == initialized_handler[event.node]
           msg_id == written[1].body.msg_id
       IN  /\ msg_id >= 1
           /\ self.current_msg_id = msg_id + Len(written)
           /\ {msg_id - 1, msg_id} \subseteq DOMAIN self.pending_messages_sent
           /\ self.pending_messages_sent[msg_id - 1].dst = written[1].dest


\* C19: for every pair of running nodes A and B, every value in A's
\* KnowledgeMap[B] is in B's Seen-Messages Set and in A's own, whatever the
\* network loses, delays or delivers twice.
C19_KnowledgeMapSound ==
    \A a \in Nodes, b \in Nodes :
      (stage[a] = "initialized" /\ stage[b] = "initialized") =>
        LET A == initialized_handler[a]
            B == initialized_handler[b]
        IN  /\ KnownTo(A, B.node_id) \subseteq B.messages
            /\ KnownTo(A, B.node_id) \subseteq A.messages

\* each of two nodes has credited the other with every value, one of them
\* through acknowledgments while a packet of its own is still pending, and
\* the network still holds packets
C19_Witness ==
    \E a \in Nodes, b \in Nodes :
      /\ a # b
      /\ stage[a] = "initialized"
      /\ stage[b] = "initialized"
      /\ LET A == initialized_handler[a]
             B == initialized_handler[b]
         IN  /\ KnownTo(A, B.node_id) = Values
             /\ KnownTo(B, A.node_id) = Values
             /\ A.current_msg_id >= 2
             /\ \E msg_id \in DOMAIN A.pending_messages_sent :
                  A.pending_messages_sent[msg_id].dst = B.node_id
             /\ \E message \in net :
                  /\ message.body.type = "inform_new_broadcast_ok"
                  /\ message.dest = A.node_id


\* a gossip round at node n, whichever neighbours it selects, sends nothing
Silent(n) ==
    \A neighbors_to_inform \in
         ChooseMultiple(initialized_handler[n].neighbors,
                        NUM_RANDOM_NEIGHBORS_TO_INFORM) :
      handle_gossip_timer(initialized_handler[n], neighbors_to_inform).out = <<>>

Quiescent == \A n \in Nodes : Silent(n)

\* C20: when every gossip packet and every acknowledgment is delivered in the
\* end, the cluster reaches, once the clients have no new value to
\* broadcast, a state in which a gossip round at any node sends nothing, and
\* from then on every state is such a state.
C20_Quiescence == <>[]Quiescent

\* every node holds every value and credits every neighbour with it, no
\* round sends a packet, and nodes have sent packets and seen them
\* acknowledged
C20_Witness ==
    /\ Quiescent
    /\ \A value \in ClusterValues : Converged(value)
    /\ \A n \in Nodes :
         \A neighbor \in Range(initialized_handler[n].neighbors) :
           KnownTo(initialized_handler[n], neighbor) = ClusterValues
    /\ \E n \in Nodes :
         /\ initialized_handler[n].current_msg_id >= 2
         /\ initialized_handler[n].pending_messages_sent = <<>>

====
